---------------------------- MODULE Spec2Model ----------------------------
(***************************************************************************)
(* Model of the resume parser: the parse_resume pipeline of parser_api.py  *)
(* (text extraction, cleaning, field extractors, entity extractor), the    *)
(* Flask upload endpoint of app.py and the batch driver of                 *)
(* batch_processor.py.                                                     *)
(*                                                                         *)
(* A text is a sequence of characters.  A printable ASCII character is the *)
(* one-character string itself; "\n", "\t" and "\r" are the usual escapes; *)
(* the other characters are named by their code point: "x01" is the ASCII  *)
(* control character 0x01, "U+00E9" the non-ASCII letter e-acute.          *)
(***************************************************************************)
EXTENDS Integers, Sequences, FiniteSets, TLC

(***************************************************************************)
(* Bounds of the model.                                                    *)
(***************************************************************************)
\* longest raw text the cleaning specification draws
MaxLen == 5

\* most entries the listing of the input directory has
MaxListing == 3

(***************************************************************************)
(* Character classes, as Python 3 str patterns see them.                   *)
(***************************************************************************)
UpperLetters == <<"A","B","C","D","E","F","G","H","I","J","K","L","M",
                  "N","O","P","Q","R","S","T","U","V","W","X","Y","Z">>

LowerLetters == <<"a","b","c","d","e","f","g","h","i","j","k","l","m",
                  "n","o","p","q","r","s","t","u","v","w","x","y","z">>

AsciiDigits == {"0","1","2","3","4","5","6","7","8","9"}

\* characters above 0x7F
NonAscii == {"U+00E9", "U+00C9", "U+2022", "U+00A0", "U+0085", "U+0663"}

\* ASCII control characters that are not whitespace
AsciiControl == {"x00", "x01", "x07", "x1B", "x7F"}

IsUpper(c) == \E i \in 1..26 : UpperLetters[i] = c

IsLower(c) == \E i \in 1..26 : LowerLetters[i] = c

\* [a-z] under re.IGNORECASE, and [a-zA-Z]
IsLetter(c) == IsUpper(c) \/ IsLower(c)

\* \s of a str pattern, which is also what str.strip() strips
IsSpace(c) == c \in {" ", "\t", "\n", "\r", "x0B", "x0C",
                     "x1C", "x1D", "x1E", "x1F", "U+0085", "U+00A0"}

\* \d of a str pattern: the Unicode decimal digits
IsDigit(c) == c \in AsciiDigits \cup {"U+0663"}

\* [\x00-\x7F]
IsAscii(c) == c \notin NonAscii

\* \w of a str pattern, on the characters of this model
IsWord(c) == IsLetter(c) \/ IsDigit(c) \/ c \in {"_", "U+00E9", "U+00C9"}

\* a character with a lower and an upper case form
IsCased(c) == IsLetter(c) \/ c \in {"U+00E9", "U+00C9"}

\* the characters from 0x20 to 0x7E
IsPrintableAscii(c) == IsAscii(c) /\ c \notin AsciiControl
                          /\ (IsSpace(c) => c = " ")

\* str.lower() of one character
LowerChar(c) == IF IsUpper(c)
                THEN LowerLetters[CHOOSE i \in 1..26 : UpperLetters[i] = c]
                ELSE IF c = "U+00C9" THEN "U+00E9" ELSE c

\* str.upper() of one character
UpperChar(c) == IF IsLower(c)
                THEN UpperLetters[CHOOSE i \in 1..26 : LowerLetters[i] = c]
                ELSE IF c = "U+00E9" THEN "U+00C9" ELSE c

(***************************************************************************)
(* Text helpers.                                                           *)
(***************************************************************************)
Min(S) == CHOOSE x \in S : \A y \in S : x <= y

Max(S) == CHOOSE x \in S : \A y \in S : x >= y

\* s[i..], the empty text when i is past the end
From(s, i) == IF i > Len(s) THEN <<>> ELSE SubSeq(s, i, Len(s))

\* str.lower()
Lower(s) == [i \in 1..Len(s) |-> LowerChar(s[i])]

\* needle occurs in s at position i
OccursAt(s, needle, i) ==
    /\ i >= 1
    /\ i + Len(needle) - 1 <= Len(s)
    /\ \A k \in 1..Len(needle) : s[i + k - 1] = needle[k]

\* needle in s
Contains(s, needle) == \E i \in 1..(Len(s) + 1) : OccursAt(s, needle, i)

\* s.endswith(suffix)
EndsWith(s, suffix) ==
    /\ Len(suffix) <= Len(s)
    /\ OccursAt(s, suffix, Len(s) - Len(suffix) + 1)

\* the first index at or after i that holds no whitespace (Len(s)+1 if none)
SpaceRunEnd(s, i) ==
    Min({k \in i..(Len(s) + 1) : k = Len(s) + 1 \/ ~IsSpace(s[k])})

\* the first index at or after i that holds no digit
DigitRunEnd(s, i) ==
    Min({k \in i..(Len(s) + 1) : k = Len(s) + 1 \/ ~IsDigit(s[k])})

\* the first index at or after i that holds an ASCII character
NonAsciiRunEnd(s, i) ==
    Min({k \in i..(Len(s) + 1) : k = Len(s) + 1 \/ IsAscii(s[k])})

\* str.strip()
Strip(s) ==
    LET keep == {k \in 1..Len(s) : ~IsSpace(s[k])}
    IN  IF keep = {} THEN <<>> ELSE SubSeq(s, Min(keep), Max(keep))

(***************************************************************************)
(* clean_resume_text: the five substitutions, in the order of the code.    *)
(***************************************************************************)
\* ([a-z])-\s*\n\s*([a-z]) at i: the index after the match, 0 if none
HyphenBreakEnd(s, i) ==
    IF IsLetter(s[i]) /\ i + 1 <= Len(s) /\ s[i + 1] = "-"
    THEN LET j == SpaceRunEnd(s, i + 2)
         IN  IF /\ j <= Len(s)
                /\ IsLetter(s[j])
                /\ \E k \in (i + 2)..(j - 1) : s[k] = "\n"
             THEN j + 1
             ELSE 0
    ELSE 0

RECURSIVE IsHyphenBreakStart(_, _)
\* re.sub finds the matches left to right without overlap: a match starts
\* at i if the pattern matches there and no earlier match covers i
IsHyphenBreakStart(s, i) ==
    /\ HyphenBreakEnd(s, i) > 0
    /\ \A j \in 1..(i - 1) :
          HyphenBreakEnd(s, j) > i => ~IsHyphenBreakStart(s, j)

\* the indices 1..Len(s) in order
Indices(s) == [k \in 1..Len(s) |-> k]

\* the characters of s at the indices not in drop, in order
Without(s, drop) ==
    LET Kept(k) == k \notin drop
        kept == SelectSeq(Indices(s), Kept)
    IN  [j \in 1..Len(kept) |-> s[kept[j]]]

\* re.sub(r'([a-z])-\s*\n\s*([a-z])', r'\1\2', s, flags=re.IGNORECASE):
\* of each match only its two letters stay
MergeHyphenBreaks(s) ==
    LET starts == {i \in 1..Len(s) : IsHyphenBreakStart(s, i)}
    IN  Without(s, UNION {(i + 1)..(HyphenBreakEnd(s, i) - 2) : i \in starts})

\* \n\s*\d+\s*\n at i: the index after the match, 0 if none
NumberLineEnd(s, i) ==
    IF s[i] = "\n"
    THEN LET j == SpaceRunEnd(s, i + 1)
             d == DigitRunEnd(s, j)
             w == SpaceRunEnd(s, d)
             nl == {k \in d..(w - 1) : s[k] = "\n"}
         IN  IF d > j /\ nl # {} THEN Max(nl) + 1 ELSE 0
    ELSE 0

RECURSIVE IsNumberLineStart(_, _)
\* a match starts at i if the pattern matches there and no earlier match
\* covers i
IsNumberLineStart(s, i) ==
    /\ NumberLineEnd(s, i) > 0
    /\ \A j \in 1..(i - 1) :
          NumberLineEnd(s, j) > i => ~IsNumberLineStart(s, j)

\* re.sub(r'\n\s*\d+\s*\n', '\n', s): of each match only its first
\* newline stays
StripNumberLines(s) ==
    LET starts == {i \in 1..Len(s) : IsNumberLineStart(s, i)}
    IN  Without(s, UNION {(i + 1)..(NumberLineEnd(s, i) - 1) : i \in starts})

\* re.sub(r'[^\x00-\x7F]+', ' ', s): of each run of non-ASCII characters
\* only the first stays, as a space
ReplaceNonAscii(s) ==
    LET t == Without(s, {k \in 2..Len(s) : ~IsAscii(s[k]) /\ ~IsAscii(s[k - 1])})
    IN  [k \in 1..Len(t) |-> IF IsAscii(t[k]) THEN t[k] ELSE " "]

\* the substitution turning every whitespace character into a space, runs
\* kept at their length
CollapseSpaces_each(s) ==
    [k \in 1..Len(s) |-> IF IsSpace(s[k]) THEN " " ELSE s[k]]

\* re.sub(r'\s+', ' ', s): of each run of whitespace only the first stays,
\* as a space
CollapseSpaces(s) ==
    LET t == Without(s, {k \in 2..Len(s) : IsSpace(s[k]) /\ IsSpace(s[k - 1])})
    IN  [k \in 1..Len(t) |-> IF IsSpace(t[k]) THEN " " ELSE t[k]]

\* the cleaning with the whitespace collapse before the non-ASCII removal
clean_resume_text_reordered(raw) ==
    IF raw = <<>> THEN <<>>
    ELSE LET t1 == MergeHyphenBreaks(raw)
             t2 == StripNumberLines(t1)
             t3 == Strip(CollapseSpaces(t2))
             t4 == ReplaceNonAscii(t3)
         IN  Lower(t4)

clean_resume_text(raw) ==
    IF raw = <<>> THEN <<>>
    ELSE LET t1 == MergeHyphenBreaks(raw)
             t2 == StripNumberLines(t1)
             t3 == ReplaceNonAscii(t2)
             t4 == Strip(CollapseSpaces(t3))
         IN  Lower(t4)

(***************************************************************************)
(* Python values.  None is a value no text equals; a dict is a record; a   *)
(* list whose order the code does not fix (list(set(...))) is a set.       *)
(***************************************************************************)
None == <<"(None)">>

(***************************************************************************)
(* extract_email                                                           *)
(***************************************************************************)
\* [\w\.-]
IsEmailChar(c) == IsWord(c) \/ c = "." \/ c = "-"

\* the first index at or after i that holds no [\w\.-] character
EmailRunEnd(s, i) ==
    Min({k \in i..(Len(s) + 1) : k = Len(s) + 1 \/ ~IsEmailChar(s[k])})

\* a match of [\w\.-]+@[\w\.-]+ starts at i
EmailStartsAt(s, i) ==
    /\ IsEmailChar(s[i])
    /\ LET r == EmailRunEnd(s, i)
       IN  r + 1 <= Len(s) /\ s[r] = "@" /\ IsEmailChar(s[r + 1])

\* re.findall(r"[\w\.-]+@[\w\.-]+", text)[0], or None
extract_email(text) ==
    LET starts == {i \in 1..Len(text) : EmailStartsAt(text, i)}
    IN  IF starts = {} THEN None
        ELSE LET i == Min(starts)
                 r == EmailRunEnd(text, i)
             IN  SubSeq(text, i, EmailRunEnd(text, r + 1) - 1)

(***************************************************************************)
(* extract_phone_number                                                    *)
(***************************************************************************)
\* s[i..i+n-1] are n digits
DigitsAt(s, i, n) ==
    i + n - 1 <= Len(s) /\ \A k \in i..(i + n - 1) : IsDigit(s[k])

\* the index after an optional [-\s] at i
SkipSeparator(s, i) ==
    IF i <= Len(s) /\ (s[i] = "-" \/ IsSpace(s[i])) THEN i + 1 ELSE i

\* \d{3}[-\s]?\d{3}[-\s]?\d{4} at i: the index after the match, 0 if none
PhoneDashedEnd(s, i) ==
    IF DigitsAt(s, i, 3)
    THEN LET a == SkipSeparator(s, i + 3)
         IN  IF DigitsAt(s, a, 3)
             THEN LET b == SkipSeparator(s, a + 3)
                  IN  IF DigitsAt(s, b, 4) THEN b + 4 ELSE 0
             ELSE 0
    ELSE 0

\* \(\d{3}\)\s*\d{3}[-\s]?\d{4} at i: the index after the match, 0 if none
PhoneParenEnd(s, i) ==
    IF /\ s[i] = "("
       /\ DigitsAt(s, i + 1, 3)
       /\ i + 4 <= Len(s)
       /\ s[i + 4] = ")"
    THEN LET a == SpaceRunEnd(s, i + 5)
         IN  IF DigitsAt(s, a, 3)
             THEN LET b == SkipSeparator(s, a + 3)
                  IN  IF DigitsAt(s, b, 4) THEN b + 4 ELSE 0
             ELSE 0
    ELSE 0

\* \d{10,15} at i: the index after the match, 0 if none
PhoneBareEnd(s, i) ==
    IF DigitsAt(s, i, 10)
    THEN Min({DigitRunEnd(s, i), i + 15})
    ELSE 0

\* the three alternatives in the order the pattern tries them
PhoneMatchEnd(s, i) ==
    IF PhoneDashedEnd(s, i) > 0 THEN PhoneDashedEnd(s, i)
    ELSE IF PhoneParenEnd(s, i) > 0 THEN PhoneParenEnd(s, i)
    ELSE PhoneBareEnd(s, i)

RECURSIVE IsPhoneStart(_, _)
\* re.findall finds the matches left to right without overlap
IsPhoneStart(s, i) ==
    /\ PhoneMatchEnd(s, i) > 0
    /\ \A j \in 1..(i - 1) : PhoneMatchEnd(s, j) > i => ~IsPhoneStart(s, j)

\* re.findall of the phone pattern: the matches, left to right
PhoneFindAll(s) ==
    LET Starts(i) == IsPhoneStart(s, i)
        starts == SelectSeq(Indices(s), Starts)
    IN  [k \in 1..Len(starts) |->
           SubSeq(s, starts[k], PhoneMatchEnd(s, starts[k]) - 1)]

\* re.sub(r'\D', '', p)
DigitsOnly(p) == SelectSeq(p, IsDigit)

\* the first cleaned candidate of 10 to 15 digits, or None
extract_phone_number(text) ==
    LET phone == PhoneFindAll(text)
        cleaned_phone == [k \in 1..Len(phone) |-> DigitsOnly(phone[k])]
        ok == {k \in 1..Len(phone) :
                 Len(cleaned_phone[k]) >= 10 /\ Len(cleaned_phone[k]) <= 15}
    IN  IF ok = {} THEN None ELSE cleaned_phone[Min(ok)]

(***************************************************************************)
(* extract_urls                                                            *)
(***************************************************************************)
\* [a-zA-Z] | [0-9] | [$-_@.&+] | [!*\\(\\),] : $-_ is the range 0x24..0x5F
IsUrlChar(c) ==
    \/ IsLetter(c)
    \/ c \in AsciiDigits
    \/ c \in {"$", "%", "&", "'", "(", ")", "*", "+", ",", "-", ".", "/",
              ":", ";", "<", "=", ">", "?", "@", "[", "\\", "]", "^", "_"}
    \/ c = "!"

\* the first index at or after i that holds no URL character
UrlRunEnd(s, i) ==
    Min({k \in i..(Len(s) + 1) : k = Len(s) + 1 \/ ~IsUrlChar(s[k])})

\* http[s]?://(...)+ at i: the index after the match, 0 if none
UrlMatchEnd(s, i) ==
    LET body == IF OccursAt(s, <<"h","t","t","p","s",":","/","/">>, i)
                THEN i + 8
                ELSE IF OccursAt(s, <<"h","t","t","p",":","/","/">>, i)
                     THEN i + 7
                     ELSE 0
    IN  IF body > 0 /\ UrlRunEnd(s, body) > body
        THEN UrlRunEnd(s, body)
        ELSE 0

RECURSIVE IsUrlStart(_, _)
\* re.findall finds the matches left to right without overlap
IsUrlStart(s, i) ==
    /\ UrlMatchEnd(s, i) > 0
    /\ \A j \in 1..(i - 1) : UrlMatchEnd(s, j) > i => ~IsUrlStart(s, j)

\* re.findall of the URL pattern: the matches, left to right
UrlFindAll(s) ==
    LET Starts(i) == IsUrlStart(s, i)
        starts == SelectSeq(Indices(s), Starts)
    IN  [k \in 1..Len(starts) |->
           SubSeq(s, starts[k], UrlMatchEnd(s, starts[k]) - 1)]

\* 'linkedin' in u.lower() or 'github' in u.lower()
IsRelevantUrl(u) ==
    \/ Contains(Lower(u), <<"l","i","n","k","e","d","i","n">>)
    \/ Contains(Lower(u), <<"g","i","t","h","u","b">>)

extract_urls(text) == SelectSeq(UrlFindAll(text), IsRelevantUrl)

(***************************************************************************)
(* extract_name                                                            *)
(***************************************************************************)
\* str.title(): a cased character is upper-cased after an uncased one and
\* lower-cased after a cased one
Title(s) ==
    [i \in 1..Len(s) |->
        IF i > 1 /\ IsCased(s[i - 1]) THEN LowerChar(s[i]) ELSE UpperChar(s[i])]

\* s.split('\n')[0]
FirstLine(s) ==
    LET nl == {k \in 1..Len(s) : s[k] = "\n"}
    IN  IF nl = {} THEN s ELSE SubSeq(s, 1, Min(nl) - 1)

\* [|:,-]
IsNameSeparator(c) == c \in {"|", ":", ",", "-"}

IsNotNameSeparator(c) == ~IsNameSeparator(c)

\* len(s.split()): the number of maximal runs of non-whitespace
TokenCount(s) ==
    Cardinality({k \in 1..Len(s) :
                   ~IsSpace(s[k]) /\ (k = 1 \/ IsSpace(s[k - 1]))})

\* the first index at or after i that holds no [a-z] character
LowerRunEnd(s, i) ==
    Min({k \in i..(Len(s) + 1) : k = Len(s) + 1 \/ ~IsLower(s[k])})

\* [A-Z][a-z]+ at i: the index after the match, 0 if none
CapWordEnd(s, i) ==
    IF i <= Len(s) /\ IsUpper(s[i]) /\ LowerRunEnd(s, i + 1) > i + 1
    THEN LowerRunEnd(s, i + 1)
    ELSE 0

\* " " then [A-Z][a-z]+ at i: the index after the match, 0 if none
NextCapWordEnd(s, i) ==
    IF i <= Len(s) /\ s[i] = " " THEN CapWordEnd(s, i + 1) ELSE 0

\* [A-Z][a-z]+ [A-Z][a-z]+(?: [A-Z][a-z]+)? at i: the index after the match
TitleNameEnd(s, i) ==
    LET e1 == CapWordEnd(s, i)
        e2 == IF e1 > 0 THEN NextCapWordEnd(s, e1) ELSE 0
        e3 == IF e2 > 0 THEN NextCapWordEnd(s, e2) ELSE 0
    IN  IF e3 > 0 THEN e3 ELSE e2

FailedFallback ==
    <<"N","/","A"," ","(","F","a","i","l","e","d"," ",
      "F","a","l","l","b","a","c","k",")">>

extract_name(raw) ==
    LET name_candidate == Strip(FirstLine(Strip(raw)))
        name == Strip(SelectSeq(name_candidate, IsNotNameSeparator))
    IN  IF TokenCount(name) > 5 \/ Len(name) < 4
        THEN LET starts == {i \in 1..Len(raw) : TitleNameEnd(raw, i) > 0}
             IN  IF starts = {} THEN FailedFallback
                 ELSE Title(SubSeq(raw, Min(starts),
                                   TitleNameEnd(raw, Min(starts)) - 1))
        ELSE Title(name)

(***************************************************************************)
(* extract_skills.  skills.txt is [state, lines]: present with its lines,  *)
(* missing, or present and unreadable (open() or the read raises an error  *)
(* other than FileNotFoundError: a directory, no permission, bytes that do *)
(* not decode).                                                            *)
(***************************************************************************)
SkillsWarning ==
    <<"W","A","R","N","I","N","G",":"," ","s","k","i","l","l","s",".","t",
      "x","t"," ","m","i","s","s","i","n","g","."," ","C","a","n","n","o",
      "t"," ","e","x","t","r","a","c","t"," ","s","k","i","l","l","s",".">>

\* s[i] exists and is a \w character
WordAt(s, i) == i >= 1 /\ i <= Len(s) /\ IsWord(s[i])

\* \b just before index i
WordBoundary(s, i) == WordAt(s, i - 1) # WordAt(s, i)

\* re.search(r'\b' + re.escape(skill) + r'\b', cleaned)
SkillFound(cleaned, skill) ==
    \E i \in 1..(Len(cleaned) + 1) :
        /\ OccursAt(cleaned, skill, i)
        /\ WordBoundary(cleaned, i)
        /\ WordBoundary(cleaned, i + Len(skill))

\* reading skills.txt raises an exception the function does not catch
skills_txt_raises(skills_file) == skills_file.state = "unreadable"

\* the skills found, as a set: the code returns list(set) in no fixed order
extract_skills(cleaned, skills_file) ==
    IF skills_file.state = "missing"
    THEN {SkillsWarning}
    ELSE LET skill_list == [k \in 1..Len(skills_file.lines) |->
                               Lower(Strip(skills_file.lines[k]))]
         IN  {skill_list[k] : k \in {j \in 1..Len(skill_list) :
                                       SkillFound(cleaned, skill_list[j])}}

(***************************************************************************)
(* extract_nlp_entities.  nlp is the module-level spaCy model, or "None"   *)
(* when loading it failed.  The model itself is outside the repository:    *)
(* nlp(text).ents is stood in for by a gazetteer that labels the phrases   *)
(* it knows wherever they occur as whole words.                            *)
(***************************************************************************)
OrgLabel ==
    <<"O","R","G">>

DateLabel ==
    <<"D","A","T","E">>

EducationWord ==
    <<"e","d","u","c","a","t","i","o","n">>

ExperienceWord ==
    <<"e","x","p","e","r","i","e","n","c","e">>

\* the spans the stand-in model knows, each with its label
Gazetteer ==
    { [text |-> <<"a","c","m","e"," ","c","o","r","p">>, label_ |-> OrgLabel],
      [text |-> <<"g","o","o","g","l","e">>, label_ |-> OrgLabel],
      [text |-> <<"2","0","1","9">>, label_ |-> DateLabel],
      [text |-> <<"w","o","r","k"," ","e","x","p","e","r","i","e","n","c","e">>,
       label_ |-> <<"E","V","E","N","T">>],
      [text |-> <<"j","a","n","e"," ","d","o","e">>,
       label_ |-> <<"P","E","R","S","O","N">>],
      [text |-> <<"a","n","n"," ","l","e","e">>,
       label_ |-> <<"P","E","R","S","O","N">>] }

\* nlp(cleaned).ents
DocEnts(cleaned) == {g \in Gazetteer : SkillFound(cleaned, g.text)}

ModelNotLoadedMessage ==
    <<"N","L","P"," ","m","o","d","e","l"," ","n","o","t"," ","l","o","a",
      "d","e","d","."," ","C","h","e","c","k"," ","s","e","t","u","p",".">>

\* the line-109 test: an ORG or DATE label, or a text that names education
\* or experience
IsRelevantEnt(ent) ==
    \/ ent.label_ \in {OrgLabel, DateLabel}
    \/ Contains(Lower(ent.text), EducationWord)
    \/ Contains(Lower(ent.text), ExperienceWord)

\* the line-110 test: more than one token, or a DATE
IsMeaningfulEnt(ent) ==
    TokenCount(Strip(ent.text)) > 1 \/ ent.label_ = DateLabel

\* f"{ent.text.strip()} ({ent.label_})"
FormatEnt(ent) == Strip(ent.text) \o <<" ", "(">> \o ent.label_ \o <<")">>

\* the [:5] of the code
MaxEntities == 5

\* list(set(items))[:5]: all of them when there are at most five, else the
\* five that the set's iteration order puts first
FirstFive(items) ==
    IF Cardinality(items) <= MaxEntities THEN items
    ELSE CHOOSE T \in SUBSET items : Cardinality(T) = MaxEntities

\* a dict {"error": ...} when the model is not loaded, else the list, here
\* [ents |-> the set of its strings]
extract_nlp_entities(cleaned, nlp_model) ==
    IF nlp_model = "None"
    THEN [error |-> ModelNotLoadedMessage]
    ELSE [ents |-> FirstFive({FormatEnt(ent) :
                     ent \in {e \in DocEnts(cleaned) :
                                IsRelevantEnt(e) /\ IsMeaningfulEnt(e)}})]

(***************************************************************************)
(* Files and the text extractors.  A file on disk is [fmt, parts]: a PDF   *)
(* with the text of each page (empty for a page with no text layer), a     *)
(* DOCX with the text of each paragraph, bytes that are neither            *)
(* ("garbage"), or a directory; NoFile stands for a path that names        *)
(* nothing.                                                                *)
(***************************************************************************)
NoFile == [fmt |-> "absent", parts |-> <<>>]

Directory == [fmt |-> "dir", parts |-> <<>>]

ErrFileNotFound ==
    <<"E","r","r","o","r",":"," ","F","i","l","e"," ","n","o","t"," ","f",
      "o","u","n","d",".">>

ErrExtractingPdf ==
    <<"E","r","r","o","r"," ","e","x","t","r","a","c","t","i","n","g"," ",
      "P","D","F",":"," ","N","o"," ","/","R","o","o","t"," ","o","b","j",
      "e","c","t","!">>

ErrExtractingDocx ==
    <<"E","r","r","o","r"," ","e","x","t","r","a","c","t","i","n","g"," ",
      "D","O","C","X",":"," ","F","i","l","e"," ","i","s"," ","n","o","t",
      " ","a"," ","z","i","p"," ","f","i","l","e">>

UnsupportedMessage ==
    <<"U","n","s","u","p","p","o","r","t","e","d"," ","f","i","l","e"," ",
      "t","y","p","e","."," ","M","u","s","t"," ","b","e"," ","P","D","F",
      " ","o","r"," ","D","O","C","X",".">>

RECURSIVE JoinLines(_)
\* '\n'.join(parts)
JoinLines(parts) ==
    IF parts = <<>> THEN <<>>
    ELSE IF Len(parts) = 1 THEN parts[1]
    ELSE parts[1] \o <<"\n">> \o JoinLines(Tail(parts))

\* "if page.extract_text()": the page has text
HasText(page) == page # <<>>

\* the PDF extractor without the filter on pages that have no text
extract_text_from_pdf_unfiltered(file) ==
    IF file.fmt = "absent" THEN ErrFileNotFound
    ELSE IF file.fmt # "pdf" THEN ErrExtractingPdf
    ELSE JoinLines(file.parts)

extract_text_from_pdf(file) ==
    IF file.fmt = "absent" THEN ErrFileNotFound
    ELSE IF file.fmt # "pdf" THEN ErrExtractingPdf
    ELSE JoinLines(SelectSeq(file.parts, HasText))

extract_text_from_docx(file) ==
    IF file.fmt = "absent" THEN ErrFileNotFound
    ELSE IF file.fmt # "docx" THEN ErrExtractingDocx
    ELSE JoinLines(file.parts)

DotPdf ==
    <<".","p","d","f">>

DotDocx ==
    <<".","d","o","c","x">>

\* path.lower().endswith('.pdf')
IsPdfPath(path) == EndsWith(Lower(path), DotPdf)

\* path.lower().endswith('.docx')
IsDocxPath(path) == EndsWith(Lower(path), DotDocx)

\* "Error" in raw
LooksLikeError(raw) == Contains(raw, <<"E","r","r","o","r">>)

(***************************************************************************)
(* parse_resume as one call: what an invocation that runs alone returns    *)
(* for the file that path names.  Raised stands for an exception      *)
(* leaving the function.                                                   *)
(***************************************************************************)
Raised == [raised |-> "exception"]

ResumeKeys == {"name", "email", "phone", "urls", "skills", "nlp_entities",
               "raw_text_length"}

parse_resume(path, file, nlp_model, skills_file) ==
    IF ~IsPdfPath(path) /\ ~IsDocxPath(path)
    THEN [error |-> UnsupportedMessage]
    ELSE LET raw == IF IsPdfPath(path)
                         THEN extract_text_from_pdf(file)
                         ELSE extract_text_from_docx(file)
             cleaned == clean_resume_text(raw)
         IN  IF LooksLikeError(raw) THEN [error |-> raw]
             ELSE IF skills_txt_raises(skills_file) THEN Raised
             ELSE [name |-> extract_name(raw),
                   email |-> extract_email(cleaned),
                   phone |-> extract_phone_number(cleaned),
                   urls |-> extract_urls(cleaned),
                   skills |-> extract_skills(cleaned, skills_file),
                   nlp_entities |-> extract_nlp_entities(cleaned, nlp_model),
                   raw_text_length |-> Len(raw)]

(***************************************************************************)
(* The documents and resources the specifications draw from.               *)
(***************************************************************************)

\* a three-page PDF whose second page is a scanned image
JanePdf ==
    [fmt |-> "pdf",
     parts |-> <<
        <<"J","a","n","e"," ","D","o","e","\n","j","a","n","e","@","x",".","i",
          "o"," ","5","5","5","-","1","2","3","-","4","5","6","7">>,
        <<>>,
        <<"h","t","t","p","s",":","/","/","g","i","t","h","u","b",".","c","o",
          "m","/","j","d","\n","P","y","t","h","o","n"," ","a","t"," ","A","c",
          "m","e"," ","C","o","r","p"," ","2","0","1","9">> >>]

\* a two-page PDF with no text layer on any page
ScanPdf == [fmt |-> "pdf", parts |-> <<<<>>, <<>>>>]

\* bytes that neither library can read
Garbage == [fmt |-> "garbage", parts |-> <<>>]

\* a DOCX whose text holds the word "Error"
BobDocx ==
    [fmt |-> "docx",
     parts |-> <<
        <<"B","o","b"," ","R","a","y">>,
        <<>>,
        <<"E","r","r","o","r"," ","h","a","n","d","l","i","n","g",","," ","S",
          "Q","L">> >>]

AnnDocx ==
    [fmt |-> "docx",
     parts |-> <<
        <<"C","V">>,
        <<"A","n","n"," ","L","e","e"," ","U+2022"," ","J","a","v","a">>,
        <<"w","o","r","k"," ","e","x","p","e","r","i","e","n","c","e",":"," ",
          "G","o","o","g","l","e">> >>]

\* skills.txt with the lines "Python", "SQL " (a trailing space), a blank
\* line and "java"
SkillsPresent ==
    [state |-> "present",
     lines |-> << <<"P","y","t","h","o","n">>, <<"S","Q","L"," ">>, <<>>,
                  <<"j","a","v","a">> >>]

SkillsMissing == [state |-> "missing", lines |-> <<>>]

SkillsUnreadable == [state |-> "unreadable", lines |-> <<>>]

\* the files of the model
KnownFiles == {JanePdf, ScanPdf, Garbage, BobDocx, AnnDocx, Directory, NoFile}

\* the states the process can find skills.txt in
SkillsStates == {SkillsPresent, SkillsMissing, SkillsUnreadable}

\* the outcomes of the module-level spacy.load
NlpStates == {"en_core_web_sm", "None"}

(***************************************************************************)
(* The files of the input directory, by name.                              *)
(***************************************************************************)
INPUT_DIR ==
    <<"t","e","s","t","_","f","i","l","e","s">>

\* a name that is not in the directory
GonePdfName ==
    <<"g","o","n","e",".","p","d","f">>

\* os.path.join(directory, filename)
PathJoin(directory, entry) == directory \o <<"/">> \o entry

\* the entries of the input directory
TestFiles ==
    { [filename |-> <<"j","a","n","e",".","p","d","f">>, file |-> JanePdf],
      [filename |-> <<"b","o","b",".","d","o","c","x">>, file |-> BobDocx],
      [filename |-> <<"A","n","n",".","D","O","C","X">>, file |-> AnnDocx],
      [filename |-> <<"s","c","a","n",".","p","d","f">>, file |-> ScanPdf],
      [filename |-> <<"b","a","d",".","p","d","f">>, file |-> Garbage],
      [filename |-> <<"n","o","t","e","s",".","t","x","t">>, file |-> Garbage],
      [filename |-> <<"o","l","d",".","p","d","f">>, file |-> Directory] }

\* the file a path of the input directory names, NoFile if none
Disk(path) ==
    IF \E e \in TestFiles : PathJoin(INPUT_DIR, e.filename) = path
    THEN (CHOOSE e \in TestFiles :
            PathJoin(INPUT_DIR, e.filename) = path).file
    ELSE NoFile

\* the paths parse_resume is called with
CallPaths ==
    {PathJoin(INPUT_DIR, e.filename) : e \in TestFiles}
        \cup {PathJoin(INPUT_DIR, GonePdfName)}

\* what parse_resume reads of its path: which of the two suffixes it has
PathKind(path) ==
    IF IsPdfPath(path) THEN "pdf"
    ELSE IF IsDocxPath(path) THEN "docx"
    ELSE "other"

\* a path of each kind
KindPath == [pdf |-> DotPdf, docx |-> DotDocx, other |-> <<>>]

\* parse_resume on every kind of path, file and process state, computed
\* once
ParseResults ==
    [kind \in {"pdf", "docx", "other"}, file \in KnownFiles,
     nlp_model \in NlpStates, skills_file \in SkillsStates |->
        parse_resume(KindPath[kind], file, nlp_model, skills_file)]

\* parse_resume(path, file, nlp_model, skills_file), looked up
ParseResult(path, file, nlp_model, skills_file) ==
    ParseResults[PathKind(path), file, nlp_model, skills_file]

(***************************************************************************)
(* app.py: the upload folder, the file-name checks and the uploads the     *)
(* endpoint is sent.                                                        *)
(***************************************************************************)
UPLOAD_FOLDER ==
    <<"t","e","m","p","_","u","p","l","o","a","d","s">>

ALLOWED_EXTENSIONS == {<<"p","d","f">>, <<"d","o","c","x">>}

\* name.rsplit('.', 1)[1], for a name with a dot
AfterLastDot(name) ==
    From(name, Max({k \in 1..Len(name) : name[k] = "."}) + 1)

allowed_file(name) ==
    /\ \E k \in 1..Len(name) : name[k] = "."
    /\ Lower(AfterLastDot(name)) \in ALLOWED_EXTENSIONS

\* [A-Za-z0-9_.-], the characters secure_filename keeps
IsSafeChar(c) == IsLetter(c) \/ c \in AsciiDigits \/ c \in {"_", ".", "-"}

\* str.strip("._")
StripDotsAndUnderscores(s) ==
    LET keep == {k \in 1..Len(s) : s[k] \notin {".", "_"}}
    IN  IF keep = {} THEN <<>> ELSE SubSeq(s, Min(keep), Max(keep))

\* werkzeug's secure_filename: non-ASCII characters dropped, path
\* separators turned into spaces, the words joined with "_", every
\* character outside [A-Za-z0-9_.-] dropped, dots and underscores stripped
\* from both ends
secure_filename(name) ==
    LET ascii == SelectSeq(name, IsAscii)
        spaced == [k \in 1..Len(ascii) |->
                     IF ascii[k] = "/" THEN " " ELSE ascii[k]]
        words == CollapseSpaces(Strip(spaced))
        joined == [k \in 1..Len(words) |->
                     IF words[k] = " " THEN "_" ELSE words[k]]
    IN  StripDotsAndUnderscores(SelectSeq(joined, IsSafeChar))

\* a request without a part named file
NoFilePart == [part |-> FALSE]

\* request.files['file'] with its filename and content
FilePart(name, file) == [part |-> TRUE, filename |-> name, file |-> file]

\* the requests the endpoint is sent
Uploads ==
    { NoFilePart,
      FilePart(<<>>, JanePdf),
      FilePart(<<"c","v",".","t","x","t">>, Garbage),
      FilePart(<<"c","v",".","p","d","f">>, JanePdf),
      FilePart(<<"c","v",".","p","d","f">>, Garbage),
      FilePart(<<"m","y"," ","c","v",".","p","d","f">>, ScanPdf),
      FilePart(<<"m","y","_","c","v",".","p","d","f">>, JanePdf),
      FilePart(<<".","p","d","f">>, JanePdf),
      FilePart(<<"c","v",".","d","o","c","x">>, AnnDocx),
      FilePart(<<"c","v",".","d","o","c","x">>, BobDocx) }

\* the names files are saved as in the upload folder
SavedNames ==
    {secure_filename(u.filename) :
        u \in {v \in Uploads : v.part /\ allowed_file(v.filename)}}

\* the requests in flight
Requests == {1, 2}

\* an entry of the upload folder: the content and the request that saved it
NoTempFile == [file |-> NoFile, owner |-> 0]

NoResponse == [status |-> 0]

NoPartMessage ==
    <<"N","o"," ","f","i","l","e"," ","p","a","r","t"," ","i","n"," ","t",
      "h","e"," ","r","e","q","u","e","s","t">>

NotAllowedMessage ==
    <<"N","o"," ","s","e","l","e","c","t","e","d"," ","f","i","l","e"," ",
      "o","r"," ","f","i","l","e"," ","t","y","p","e"," ","n","o","t"," ",
      "a","l","l","o","w","e","d"," ","(","m","u","s","t"," ","b","e"," ",
      "P","D","F"," ","o","r"," ","D","O","C","X",")">>

\* the prefix of the 500 body; str(e) follows it
InternalErrorMessage ==
    <<"A","n"," ","i","n","t","e","r","n","a","l"," ","s","e","r","v","e",
      "r"," ","e","r","r","o","r"," ","o","c","c","u","r","r","e","d",":",
      " ">>

(***************************************************************************)
(* batch_processor.py: the listings of the input directory and the output  *)
(* file.                                                                   *)
(***************************************************************************)

\* os.listdir(INPUT_DIR): the entries in any order, none twice
Listings ==
    {l \in UNION {[1..n -> {e.filename : e \in TestFiles}] :
                     n \in 0..MaxListing} :
        \A i, j \in 1..Len(l) : i # j => l[i] # l[j]}

\* the directory is missing, or it is there with a listing
InputDirs ==
    {[exists |-> FALSE, entries |-> <<>>]}
        \cup {[exists |-> TRUE, entries |-> l] : l \in Listings}

\* os.path.isdir(os.path.join(INPUT_DIR, name))
IsDir(name) == Disk(PathJoin(INPUT_DIR, name)).fmt = "dir"

\* filename.lower().endswith('.pdf') or filename.lower().endswith('.docx')
HasResumeExtension(name) ==
    EndsWith(Lower(name), DotPdf) \/ EndsWith(Lower(name), DotDocx)

\* processed_resumes.json is not there
NoOutput == [exists |-> FALSE, records |-> <<>>]

\* processed_resumes.json left by an earlier run
StaleOutput == [exists |-> TRUE, records |-> <<[filename |-> GonePdfName]>>]

\* the invocations of parse_resume that run interleaved
Callers == {1, 2}

\* a dict with no key yet, and a text not yet computed
EmptyDict == <<>>

(***************************************************************************)
(* State.                                                                  *)
(***************************************************************************)
VARIABLES
    \* the process: the module-level model and the skills.txt it finds
    nlp, skills_txt,
    \* parse_resume, per invocation: its position, argument, locals and
    \* return value
    pc, file_path, raw_text, cleaned_text, structured_data, result,
    \* the cleaning specification: a raw text and its one and two cleanings
    clean_in, clean_once, clean_twice, clean_pc,
    \* the endpoint: the upload folder and, per request, its files part, its
    \* position, the name it saved under, what parse_resume returned and
    \* the response
    temp_uploads, files, up_pc, filename, parsed, response,
    \* the batch driver: the input directory, its position, the loop index,
    \* the accumulated list, what it printed and the output file
    input_dir, batch_pc, idx, all_results, log, output_file

env_vars == <<nlp, skills_txt>>

parse_vars == <<pc, file_path, raw_text, cleaned_text, structured_data, result>>

clean_vars == <<clean_in, clean_once, clean_twice, clean_pc>>

upload_vars == <<temp_uploads, files, up_pc, filename, parsed, response>>

batch_vars == <<input_dir, batch_pc, idx, all_results, log, output_file>>

vars == <<env_vars, parse_vars, clean_vars, upload_vars, batch_vars>>

NotCleaned == <<"(not cleaned)">>

\* the process state: the outcome of the model load and of finding
\* skills.txt
EnvInit ==
    /\ nlp \in NlpStates
    /\ skills_txt \in SkillsStates

EnvFixed ==
    /\ nlp = "en_core_web_sm"
    /\ skills_txt = SkillsPresent

ParseIdle ==
    /\ pc = [p \in Callers |-> "idle"]
    /\ file_path = [p \in Callers |-> <<>>]
    /\ raw_text = [p \in Callers |-> <<>>]
    /\ cleaned_text = [p \in Callers |-> <<>>]
    /\ structured_data = [p \in Callers |-> EmptyDict]
    /\ result = [p \in Callers |-> EmptyDict]

CleanIdle ==
    /\ clean_in = <<>>
    /\ clean_once = NotCleaned
    /\ clean_twice = NotCleaned
    /\ clean_pc = "off"

UploadIdle ==
    /\ temp_uploads = [n \in SavedNames |-> NoTempFile]
    /\ files = [r \in Requests |-> NoFilePart]
    /\ up_pc = [r \in Requests |-> "idle"]
    /\ filename = [r \in Requests |-> <<>>]
    /\ parsed = [r \in Requests |-> EmptyDict]
    /\ response = [r \in Requests |-> NoResponse]

BatchIdle ==
    /\ input_dir = [exists |-> FALSE, entries |-> <<>>]
    /\ batch_pc = "off"
    /\ idx = 0
    /\ all_results = <<>>
    /\ log = <<>>
    /\ output_file = NoOutput

(***************************************************************************)
(* parse_resume, step by step, for interleaved invocations.                *)
(***************************************************************************)
\* parse_resume(file_path) is called
Call(p) ==
    /\ pc[p] = "idle"
    /\ \E path \in CallPaths : file_path' = [file_path EXCEPT ![p] = path]
    /\ pc' = [pc EXCEPT ![p] = "convert"]
    /\ UNCHANGED <<raw_text, cleaned_text, structured_data, result>>
    /\ UNCHANGED <<env_vars, clean_vars, upload_vars, batch_vars>>

\* the conversion writing its text to a variable every invocation shares
Convert_shared(p) ==
    /\ pc[p] = "convert"
    /\ IF IsPdfPath(file_path[p])
       THEN /\ raw_text' = [q \in Callers |->
                              extract_text_from_pdf(Disk(file_path[p]))]
            /\ pc' = [pc EXCEPT ![p] = "check"]
            /\ UNCHANGED result
       ELSE IF IsDocxPath(file_path[p])
       THEN /\ raw_text' = [q \in Callers |->
                              extract_text_from_docx(Disk(file_path[p]))]
            /\ pc' = [pc EXCEPT ![p] = "check"]
            /\ UNCHANGED result
       ELSE /\ result' = [result EXCEPT ![p] = [error |-> UnsupportedMessage]]
            /\ pc' = [pc EXCEPT ![p] = "done"]
            /\ UNCHANGED raw_text
    /\ UNCHANGED <<file_path, cleaned_text, structured_data>>
    /\ UNCHANGED <<env_vars, clean_vars, upload_vars, batch_vars>>

\* 1. CONVERT: the extractor the extension selects, or the unsupported-type
\* error
Convert(p) ==
    /\ pc[p] = "convert"
    /\ IF IsPdfPath(file_path[p])
       THEN /\ raw_text' = [raw_text EXCEPT ![p] =
                              extract_text_from_pdf(Disk(file_path[p]))]
            /\ pc' = [pc EXCEPT ![p] = "check"]
            /\ UNCHANGED result
       ELSE IF IsDocxPath(file_path[p])
       THEN /\ raw_text' = [raw_text EXCEPT ![p] =
                              extract_text_from_docx(Disk(file_path[p]))]
            /\ pc' = [pc EXCEPT ![p] = "check"]
            /\ UNCHANGED result
       ELSE /\ result' = [result EXCEPT ![p] = [error |-> UnsupportedMessage]]
            /\ pc' = [pc EXCEPT ![p] = "done"]
            /\ UNCHANGED raw_text
    /\ UNCHANGED <<file_path, cleaned_text, structured_data>>
    /\ UNCHANGED <<env_vars, clean_vars, upload_vars, batch_vars>>

\* if "Error" in raw_text: return {"error": raw_text}
CheckError(p) ==
    /\ pc[p] = "check"
    /\ IF LooksLikeError(raw_text[p])
       THEN /\ result' = [result EXCEPT ![p] = [error |-> raw_text[p]]]
            /\ pc' = [pc EXCEPT ![p] = "done"]
       ELSE /\ pc' = [pc EXCEPT ![p] = "clean"]
            /\ UNCHANGED result
    /\ UNCHANGED <<file_path, raw_text, cleaned_text, structured_data>>
    /\ UNCHANGED <<env_vars, clean_vars, upload_vars, batch_vars>>

\* 2. CLEAN
Clean(p) ==
    /\ pc[p] = "clean"
    /\ cleaned_text' = [cleaned_text EXCEPT ![p] = clean_resume_text(raw_text[p])]
    /\ pc' = [pc EXCEPT ![p] = "name"]
    /\ UNCHANGED <<file_path, raw_text, structured_data, result>>
    /\ UNCHANGED <<env_vars, clean_vars, upload_vars, batch_vars>>

\* 3. EXTRACT, one entry of the dict at a time, in the order of the code
ExtractName(p) ==
    /\ pc[p] = "name"
    /\ structured_data' = [structured_data EXCEPT ![p] =
                             [name |-> extract_name(raw_text[p])]]
    /\ pc' = [pc EXCEPT ![p] = "email"]
    /\ UNCHANGED <<file_path, raw_text, cleaned_text, result>>
    /\ UNCHANGED <<env_vars, clean_vars, upload_vars, batch_vars>>

ExtractEmail(p) ==
    /\ pc[p] = "email"
    /\ structured_data' = [structured_data EXCEPT ![p] =
                             @ @@ [email |-> extract_email(cleaned_text[p])]]
    /\ pc' = [pc EXCEPT ![p] = "phone"]
    /\ UNCHANGED <<file_path, raw_text, cleaned_text, result>>
    /\ UNCHANGED <<env_vars, clean_vars, upload_vars, batch_vars>>

ExtractPhone(p) ==
    /\ pc[p] = "phone"
    /\ structured_data' = [structured_data EXCEPT ![p] =
                             @ @@ [phone |-> extract_phone_number(cleaned_text[p])]]
    /\ pc' = [pc EXCEPT ![p] = "urls"]
    /\ UNCHANGED <<file_path, raw_text, cleaned_text, result>>
    /\ UNCHANGED <<env_vars, clean_vars, upload_vars, batch_vars>>

ExtractUrls(p) ==
    /\ pc[p] = "urls"
    /\ structured_data' = [structured_data EXCEPT ![p] =
                             @ @@ [urls |-> extract_urls(cleaned_text[p])]]
    /\ pc' = [pc EXCEPT ![p] = "skills"]
    /\ UNCHANGED <<file_path, raw_text, cleaned_text, result>>
    /\ UNCHANGED <<env_vars, clean_vars, upload_vars, batch_vars>>

\* extract_skills returns, or the read of skills.txt raises and the
\* exception leaves parse_resume
ExtractSkills(p) ==
    /\ pc[p] = "skills"
    /\ IF skills_txt_raises(skills_txt)
       THEN /\ pc' = [pc EXCEPT ![p] = "raised"]
            /\ UNCHANGED structured_data
       ELSE /\ structured_data' = [structured_data EXCEPT ![p] =
                  @ @@ [skills |-> extract_skills(cleaned_text[p], skills_txt)]]
            /\ pc' = [pc EXCEPT ![p] = "entities"]
    /\ UNCHANGED <<file_path, raw_text, cleaned_text, result>>
    /\ UNCHANGED <<env_vars, clean_vars, upload_vars, batch_vars>>

\* the entity step putting the model's load failure in a top-level error
\* key
ExtractEntities_flattened(p) ==
    /\ pc[p] = "entities"
    /\ structured_data' = [structured_data EXCEPT ![p] =
          IF nlp = "None"
          THEN @ @@ [nlp_entities |-> [ents |-> {}],
                     error |-> ModelNotLoadedMessage]
          ELSE @ @@ [nlp_entities |-> extract_nlp_entities(cleaned_text[p], nlp)]]
    /\ pc' = [pc EXCEPT ![p] = "return"]
    /\ UNCHANGED <<file_path, raw_text, cleaned_text, result>>
    /\ UNCHANGED <<env_vars, clean_vars, upload_vars, batch_vars>>

ExtractEntities(p) ==
    /\ pc[p] = "entities"
    /\ structured_data' = [structured_data EXCEPT ![p] =
          @ @@ [nlp_entities |-> extract_nlp_entities(cleaned_text[p], nlp)]]
    /\ pc' = [pc EXCEPT ![p] = "return"]
    /\ UNCHANGED <<file_path, raw_text, cleaned_text, result>>
    /\ UNCHANGED <<env_vars, clean_vars, upload_vars, batch_vars>>

\* the last entry, len(raw_text), and return structured_data
Return(p) ==
    /\ pc[p] = "return"
    /\ structured_data' = [structured_data EXCEPT ![p] =
                             @ @@ [raw_text_length |-> Len(raw_text[p])]]
    /\ result' = [result EXCEPT ![p] = structured_data'[p]]
    /\ pc' = [pc EXCEPT ![p] = "done"]
    /\ UNCHANGED <<file_path, raw_text, cleaned_text>>
    /\ UNCHANGED <<env_vars, clean_vars, upload_vars, batch_vars>>

Init ==
    /\ EnvInit
    /\ ParseIdle
    /\ CleanIdle
    /\ UploadIdle
    /\ BatchIdle

Next ==
    \E p \in Callers :
        \/ Call(p)
        \/ Convert(p)
        \/ CheckError(p)
        \/ Clean(p)
        \/ ExtractName(p)
        \/ ExtractEmail(p)
        \/ ExtractPhone(p)
        \/ ExtractUrls(p)
        \/ ExtractSkills(p)
        \/ ExtractEntities(p)
        \/ Return(p)

Spec == Init /\ [][Next]_vars

(***************************************************************************)
(* Claims about parse_resume, checked under Spec.                          *)
(***************************************************************************)
\* the extractor that the extension of the path selects can read the file
\* the path names
ExtractionSucceeds(path) ==
    \/ IsPdfPath(path) /\ Disk(path).fmt = "pdf"
    \/ IsDocxPath(path) /\ Disk(path).fmt = "docx"

\* C1: every record parse_resume returns has exactly the key error, or
\* exactly the seven ParsedResume keys (name, email, phone, urls, skills,
\* nlp_entities, raw_text_length); never a mix of the two.
C1_ErrorOrFullRecord ==
    \A p \in Callers :
        pc[p] = "done" =>
            \/ DOMAIN result[p] = {"error"}
            \/ DOMAIN result[p] = ResumeKeys

\* C1 witness: one invocation has returned an error-only record and the
\* other a full record, with the model not loaded (so that the entity
\* field holds its own nested error).
C1_Witness ==
    /\ pc[1] = "done" /\ DOMAIN result[1] = {"error"}
    /\ pc[2] = "done" /\ DOMAIN result[2] = ResumeKeys
    /\ nlp = "None"

\* C2 as stated: whenever the extraction of a .pdf or .docx file succeeds,
\* parse_resume returns a full record with no error key.
C2_ErrorOnlyWhenExtractionFails ==
    \A p \in Callers :
        (pc[p] = "done" /\ ExtractionSucceeds(file_path[p]))
            => DOMAIN result[p] = ResumeKeys

\* the PDF a path names has no text on any page
IsTextlessPdf(path) ==
    /\ IsPdfPath(path)
    /\ Disk(path).fmt = "pdf"
    /\ \A k \in 1..Len(Disk(path).parts) : Disk(path).parts[k] = <<>>

C7_InvocationsIndependent ==
    \A p \in Callers :
        LET alone == ParseResult(file_path[p], Disk(file_path[p]),
                                 nlp, skills_txt)
        IN  /\ pc[p] = "done" => result[p] = alone
            /\ pc[p] = "raised" => alone = Raised

\* C7 witness: the two invocations have returned full records for two
\* different valid documents, and the records differ in every text field.
C7_Witness ==
    /\ pc[1] = "done" /\ pc[2] = "done"
    /\ file_path[1] # file_path[2]
    /\ DOMAIN result[1] = ResumeKeys
    /\ DOMAIN result[2] = ResumeKeys
    /\ result[1].name # result[2].name
    /\ result[1].email # result[2].email
    /\ result[1].skills # result[2].skills

\* what parse_resume returns for the file of invocation p when the model
\* is loaded and skills.txt is present
WithResources(p) ==
    ParseResult(file_path[p], Disk(file_path[p]),
                "en_core_web_sm", SkillsPresent)

\* C8 as stated: when the model is not loaded or skills.txt is missing, an
\* invocation on a document whose extraction succeeds does not raise and
\* returns a full record with no top-level error, in which entities is the
\* model-not-loaded value (if the model is not loaded), skills is the
\* single warning (if skills.txt is missing) and every other field is as
\* with the resources available.
C8_ResourceFailureConfined ==
    \A p \in Callers :
        ( /\ pc[p] \in {"done", "raised"}
          /\ ExtractionSucceeds(file_path[p])
          /\ nlp = "None" \/ skills_txt = SkillsMissing
          /\ skills_txt # SkillsUnreadable )
        => /\ pc[p] = "done"
           /\ DOMAIN result[p] = ResumeKeys
           /\ DOMAIN WithResources(p) = ResumeKeys
           /\ result[p].nlp_entities =
                 IF nlp = "None" THEN [error |-> ModelNotLoadedMessage]
                 ELSE WithResources(p).nlp_entities
           /\ result[p].skills =
                 IF skills_txt = SkillsMissing THEN {SkillsWarning}
                 ELSE WithResources(p).skills
           /\ \A k \in ResumeKeys \ {"nlp_entities", "skills"} :
                 result[p][k] = WithResources(p)[k]

\* the same confinement, for the documents that parse to a full record
\* when both resources are available
ResourceFailureStaysInItsField ==
    \A p \in Callers :
        ( /\ pc[p] \in {"done", "raised"}
          /\ nlp = "None" \/ skills_txt = SkillsMissing
          /\ skills_txt # SkillsUnreadable
          /\ DOMAIN WithResources(p) = ResumeKeys )
        => /\ pc[p] = "done"
           /\ DOMAIN result[p] = ResumeKeys
           /\ result[p].nlp_entities =
                 IF nlp = "None" THEN [error |-> ModelNotLoadedMessage]
                 ELSE WithResources(p).nlp_entities
           /\ result[p].skills =
                 IF skills_txt = SkillsMissing THEN {SkillsWarning}
                 ELSE WithResources(p).skills
           /\ \A k \in ResumeKeys \ {"nlp_entities", "skills"} :
                 result[p][k] = WithResources(p)[k]

(***************************************************************************)
(* The cleaning specification: clean_resume_text applied to every raw      *)
(* text of at most MaxLen characters, then applied to its own output.      *)
(***************************************************************************)
\* the characters raw texts are drawn from: a lower and an upper case
\* letter, a digit, the hyphen, a newline, a space, a non-ASCII letter,
\* a non-ASCII whitespace and an ASCII control character
CleanAlphabet == {"a", "B", "7", "-", "\n", " ", "U+00E9", "U+00A0", "x01"}

RawTexts == UNION {[1..n -> CleanAlphabet] : n \in 0..MaxLen}

CleanInit ==
    /\ EnvFixed
    /\ ParseIdle
    /\ UploadIdle
    /\ BatchIdle
    /\ clean_in \in RawTexts
    /\ clean_once = NotCleaned
    /\ clean_twice = NotCleaned
    /\ clean_pc = "raw"

CleanFirst ==
    /\ clean_pc = "raw"
    /\ clean_once' = clean_resume_text(clean_in)
    /\ clean_pc' = "cleaned"
    /\ UNCHANGED <<clean_in, clean_twice>>
    /\ UNCHANGED <<env_vars, parse_vars, upload_vars, batch_vars>>

CleanAgain ==
    /\ clean_pc = "cleaned"
    /\ clean_twice' = clean_resume_text(clean_once)
    /\ clean_pc' = "recleaned"
    /\ UNCHANGED <<clean_in, clean_once>>
    /\ UNCHANGED <<env_vars, parse_vars, upload_vars, batch_vars>>

CleanNext == CleanFirst \/ CleanAgain

SpecClean == CleanInit /\ [][CleanNext]_vars

(***************************************************************************)
(* Claims about clean_resume_text.                                         *)
(***************************************************************************)
\* C9: clean_resume_text is idempotent: cleaning the cleaned text of any
\* raw text gives the cleaned text again.
C9_CleanIdempotent ==
    clean_pc = "recleaned" => clean_twice = clean_once

\* C9 witness: a raw text with a hyphenated line break and a non-ASCII
\* character has been cleaned twice, and the cleaning changed it.
C9_Witness ==
    /\ clean_pc = "recleaned"
    /\ \E i \in 1..Len(clean_in) : HyphenBreakEnd(clean_in, i) > 0
    /\ \E i \in 1..Len(clean_in) : ~IsAscii(clean_in[i])
    /\ clean_once # clean_in
    /\ clean_once # <<>>

\* C10 as stated: the cleaned text holds only printable ASCII characters
\* (0x20 to 0x7E) and no two consecutive whitespace characters.
C10_PrintableAsciiOnly ==
    clean_pc = "cleaned" =>
        /\ \A i \in 1..Len(clean_once) : IsPrintableAscii(clean_once[i])
        /\ \A i \in 1..(Len(clean_once) - 1) :
               ~(IsSpace(clean_once[i]) /\ IsSpace(clean_once[i + 1]))

\* C10 amended: the cleaned text holds only ASCII characters (0x00 to
\* 0x7F), its only whitespace character is the space, and no two of them
\* are consecutive; ASCII control characters that are not whitespace are
\* kept.
C10_AsciiSingleSpaced ==
    clean_pc = "cleaned" =>
        /\ \A i \in 1..Len(clean_once) :
               /\ IsAscii(clean_once[i])
               /\ IsSpace(clean_once[i]) => clean_once[i] = " "
        /\ \A i \in 1..(Len(clean_once) - 1) :
               ~(IsSpace(clean_once[i]) /\ IsSpace(clean_once[i + 1]))

\* C10 witness: a raw text with a non-ASCII character, two consecutive
\* whitespace characters and a control character has been cleaned to a
\* non-empty text.
C10_Witness ==
    /\ clean_pc = "cleaned"
    /\ \E i \in 1..Len(clean_in) : ~IsAscii(clean_in[i])
    /\ \E i \in 1..(Len(clean_in) - 1) :
           IsSpace(clean_in[i]) /\ IsSpace(clean_in[i + 1])
    /\ \E i \in 1..Len(clean_once) : clean_once[i] \in AsciiControl
    /\ Len(clean_once) >= 2

(***************************************************************************)
(* The upload endpoint of app.py: parse_resume_endpoint, for requests      *)
(* handled at the same time.  The handler's steps on the upload folder     *)
(* (save, parse, remove) are separate actions; parse_resume reads the      *)
(* saved file in its first step and nothing shared afterwards, so it is    *)
(* one action here.                                                        *)
(***************************************************************************)
\* a POST /parse_resume arrives
Request(r) ==
    /\ up_pc[r] = "idle"
    /\ \E u \in Uploads : files' = [files EXCEPT ![r] = u]
    /\ up_pc' = [up_pc EXCEPT ![r] = "check"]
    /\ UNCHANGED <<temp_uploads, filename, parsed, response>>
    /\ UNCHANGED <<env_vars, parse_vars, clean_vars, batch_vars>>

\* 1. no file part: 400; 2. empty filename or extension not allowed: 400
CheckUpload(r) ==
    /\ up_pc[r] = "check"
    /\ IF ~files[r].part
       THEN /\ response' = [response EXCEPT ![r] =
                  [status |-> 400, body |-> [error |-> NoPartMessage]]]
            /\ up_pc' = [up_pc EXCEPT ![r] = "responded"]
       ELSE IF files[r].filename = <<>> \/ ~allowed_file(files[r].filename)
       THEN /\ response' = [response EXCEPT ![r] =
                  [status |-> 400, body |-> [error |-> NotAllowedMessage]]]
            /\ up_pc' = [up_pc EXCEPT ![r] = "responded"]
       ELSE /\ up_pc' = [up_pc EXCEPT ![r] = "save"]
            /\ UNCHANGED response
    /\ UNCHANGED <<temp_uploads, files, filename, parsed>>
    /\ UNCHANGED <<env_vars, parse_vars, clean_vars, batch_vars>>

\* 3. filename = secure_filename(file.filename); file.save(file_path)
Save(r) ==
    /\ up_pc[r] = "save"
    /\ filename' = [filename EXCEPT ![r] = secure_filename(files[r].filename)]
    /\ temp_uploads' = [temp_uploads EXCEPT ![filename'[r]] =
                          [file |-> files[r].file, owner |-> r]]
    /\ up_pc' = [up_pc EXCEPT ![r] = "parse"]
    /\ UNCHANGED <<files, parsed, response>>
    /\ UNCHANGED <<env_vars, parse_vars, clean_vars, batch_vars>>

\* 4. structured_data = parse_resume(file_path); an exception goes to the
\* except branch, which answers 500 and removes nothing
ParseUpload(r) ==
    /\ up_pc[r] = "parse"
    /\ LET structured == ParseResult(PathJoin(UPLOAD_FOLDER, filename[r]),
                                     temp_uploads[filename[r]].file,
                                     nlp, skills_txt)
       IN  IF structured = Raised
           THEN /\ response' = [response EXCEPT ![r] =
                      [status |-> 500,
                       body |-> [error |-> InternalErrorMessage]]]
                /\ up_pc' = [up_pc EXCEPT ![r] = "responded"]
                /\ UNCHANGED parsed
           ELSE /\ parsed' = [parsed EXCEPT ![r] = structured]
                /\ up_pc' = [up_pc EXCEPT ![r] = "remove"]
                /\ UNCHANGED response
    /\ UNCHANGED <<temp_uploads, files, filename>>
    /\ UNCHANGED <<env_vars, parse_vars, clean_vars, batch_vars>>

\* 5. os.remove(file_path); FileNotFoundError goes to the except branch
RemoveTemp(r) ==
    /\ up_pc[r] = "remove"
    /\ IF temp_uploads[filename[r]].file = NoFile
       THEN /\ response' = [response EXCEPT ![r] =
                  [status |-> 500,
                   body |-> [error |-> InternalErrorMessage]]]
            /\ up_pc' = [up_pc EXCEPT ![r] = "responded"]
            /\ UNCHANGED temp_uploads
       ELSE /\ temp_uploads' = [temp_uploads EXCEPT ![filename[r]] = NoTempFile]
            /\ up_pc' = [up_pc EXCEPT ![r] = "respond"]
            /\ UNCHANGED response
    /\ UNCHANGED <<files, filename, parsed>>
    /\ UNCHANGED <<env_vars, parse_vars, clean_vars, batch_vars>>

\* 6. return jsonify(structured_data), 200
Respond(r) ==
    /\ up_pc[r] = "respond"
    /\ response' = [response EXCEPT ![r] =
                      [status |-> 200, body |-> parsed[r]]]
    /\ up_pc' = [up_pc EXCEPT ![r] = "responded"]
    /\ UNCHANGED <<temp_uploads, files, filename, parsed>>
    /\ UNCHANGED <<env_vars, parse_vars, clean_vars, batch_vars>>

UploadNext ==
    \E r \in Requests :
        \/ Request(r)
        \/ CheckUpload(r)
        \/ Save(r)
        \/ ParseUpload(r)
        \/ RemoveTemp(r)
        \/ Respond(r)

SpecUpload == Init /\ [][UploadNext]_vars

(***************************************************************************)
(* Claims about the upload endpoint, checked under SpecUpload.             *)
(***************************************************************************)
\* C4 as stated: when a request that saved its upload to the temporary
\* folder has been answered, the file it saved is no longer there, whether
\* parse_resume returned a record, returned an error record or raised.
C4_TempFileDeletedOnEveryPath ==
    \A r \in Requests :
        (up_pc[r] = "responded" /\ filename[r] # <<>>)
            => temp_uploads[filename[r]].owner # r

\* C5 as stated: a response with status 200 carries a full ParsedResume
\* and no error key, and every other response has a 4xx or 5xx status and
\* an error body.
C5_FailuresSurfaceAsErrorStatus ==
    \A r \in Requests :
        up_pc[r] = "responded" =>
            IF response[r].status = 200
            THEN DOMAIN response[r].body = ResumeKeys
            ELSE /\ response[r].status \in 400..599
                 /\ DOMAIN response[r].body = {"error"}

\* the response a request that saved its upload gets when no other request
\* is handled: 200 with the parse of the file it uploaded, or 500 when
\* parse_resume raises
ResponseAlone(r) ==
    LET alone == ParseResult(PathJoin(UPLOAD_FOLDER, filename[r]),
                             files[r].file, nlp, skills_txt)
    IN  IF alone = Raised
        THEN [status |-> 500, body |-> [error |-> InternalErrorMessage]]
        ELSE [status |-> 200, body |-> alone]

\* C11 as stated: under every interleaving of two upload requests, also
\* two whose uploads are saved under the same name, from its save to its
\* remove the file at a request's path is the one that request saved
\* (the other request neither overwrote nor deleted it), and the response
\* of a request that saved its upload is the parse of the file that
\* request uploaded.
C11_UploadsDoNotInterfere ==
    \A r \in Requests :
        /\ up_pc[r] \in {"parse", "remove"} =>
              temp_uploads[filename[r]] = [file |-> files[r].file, owner |-> r]
        /\ (up_pc[r] = "responded" /\ filename[r] # <<>>) =>
              response[r] = ResponseAlone(r)

(***************************************************************************)
(* The batch driver of batch_processor.py: process_all_resumes, one        *)
(* action per early return, per iteration of the loop and per outcome of   *)
(* the write.                                                              *)
(***************************************************************************)
OUTPUT_FILE ==
    <<"p","r","o","c","e","s","s","e","d","_","r","e","s","u","m","e","s",
      ".","j","s","o","n">>

\* file_list = os.listdir(INPUT_DIR)
file_list == input_dir.entries

\* the first two checks: the directory is missing, or its listing is empty
StartBatch ==
    /\ batch_pc = "start"
    /\ IF ~input_dir.exists
       THEN batch_pc' = "stopped_missing" /\ UNCHANGED idx
       ELSE IF file_list = <<>>
       THEN batch_pc' = "stopped_empty" /\ UNCHANGED idx
       ELSE batch_pc' = "loop" /\ idx' = 1
    /\ UNCHANGED <<input_dir, all_results, log, output_file>>
    /\ UNCHANGED <<env_vars, parse_vars, clean_vars, upload_vars>>

\* an iteration that skips a directory or a name without a resume
\* extension
SkipEntry ==
    /\ batch_pc = "loop"
    /\ idx <= Len(file_list)
    /\ IsDir(file_list[idx]) \/ ~HasResumeExtension(file_list[idx])
    /\ log' = Append(log, [kind |-> "skipped", filename |-> file_list[idx]])
    /\ idx' = idx + 1
    /\ UNCHANGED <<input_dir, batch_pc, all_results, output_file>>
    /\ UNCHANGED <<env_vars, parse_vars, clean_vars, upload_vars>>

\* the iteration leaving the loop at the first result with an error
ProcessEntry_stopping ==
    /\ batch_pc = "loop"
    /\ idx <= Len(file_list)
    /\ ~IsDir(file_list[idx]) /\ HasResumeExtension(file_list[idx])
    /\ LET path == PathJoin(INPUT_DIR, file_list[idx])
           parse_result == ParseResult(path, Disk(path), nlp, skills_txt)
       IN  IF parse_result = Raised
           THEN /\ batch_pc' = "crashed"
                /\ UNCHANGED <<idx, all_results, log>>
           ELSE IF "error" \in DOMAIN parse_result
           THEN /\ log' = Append(log, [kind |-> "error",
                                       filename |-> file_list[idx]])
                /\ idx' = Len(file_list) + 1
                /\ UNCHANGED <<batch_pc, all_results>>
           ELSE /\ all_results' = Append(all_results,
                      parse_result @@ [filename |-> file_list[idx]])
                /\ idx' = idx + 1
                /\ UNCHANGED <<batch_pc, log>>
    /\ UNCHANGED <<input_dir, output_file>>
    /\ UNCHANGED <<env_vars, parse_vars, clean_vars, upload_vars>>

\* an iteration that parses the file: an exception of parse_resume leaves
\* process_all_resumes; a result with error is printed and skipped; any
\* other result gets its filename and is appended
ProcessEntry ==
    /\ batch_pc = "loop"
    /\ idx <= Len(file_list)
    /\ ~IsDir(file_list[idx]) /\ HasResumeExtension(file_list[idx])
    /\ LET path == PathJoin(INPUT_DIR, file_list[idx])
           parse_result == ParseResult(path, Disk(path), nlp, skills_txt)
       IN  IF parse_result = Raised
           THEN /\ batch_pc' = "crashed"
                /\ UNCHANGED <<idx, all_results, log>>
           ELSE IF "error" \in DOMAIN parse_result
           THEN /\ log' = Append(log, [kind |-> "error",
                                       filename |-> file_list[idx]])
                /\ idx' = idx + 1
                /\ UNCHANGED <<batch_pc, all_results>>
           ELSE /\ all_results' = Append(all_results,
                      parse_result @@ [filename |-> file_list[idx]])
                /\ idx' = idx + 1
                /\ UNCHANGED <<batch_pc, log>>
    /\ UNCHANGED <<input_dir, output_file>>
    /\ UNCHANGED <<env_vars, parse_vars, clean_vars, upload_vars>>

\* after the loop: "if not all_results: return", else go on to the write
FinishLoop ==
    /\ batch_pc = "loop"
    /\ idx > Len(file_list)
    /\ batch_pc' = IF all_results = <<>> THEN "stopped_none" ELSE "write"
    /\ UNCHANGED <<input_dir, idx, all_results, log, output_file>>
    /\ UNCHANGED <<env_vars, parse_vars, clean_vars, upload_vars>>

\* json.dump(all_results, f)
WriteResults ==
    /\ batch_pc = "write"
    /\ output_file' = [exists |-> TRUE, records |-> all_results]
    /\ batch_pc' = "saved"
    /\ UNCHANGED <<input_dir, idx, all_results, log>>
    /\ UNCHANGED <<env_vars, parse_vars, clean_vars, upload_vars>>

\* open(OUTPUT_FILE, 'w') raises: the except branch prints the error
WriteFails ==
    /\ batch_pc = "write"
    /\ log' = Append(log, [kind |-> "critical", filename |-> OUTPUT_FILE])
    /\ batch_pc' = "save_failed"
    /\ UNCHANGED <<input_dir, idx, all_results, output_file>>
    /\ UNCHANGED <<env_vars, parse_vars, clean_vars, upload_vars>>

BatchInit ==
    /\ EnvInit
    /\ ParseIdle
    /\ CleanIdle
    /\ UploadIdle
    /\ input_dir \in InputDirs
    /\ batch_pc = "start"
    /\ idx = 0
    /\ all_results = <<>>
    /\ log = <<>>
    /\ output_file \in {NoOutput, StaleOutput}

BatchNext ==
    \/ StartBatch
    \/ SkipEntry
    \/ ProcessEntry
    \/ FinishLoop
    \/ WriteResults
    \/ WriteFails

SpecBatch == BatchInit /\ [][BatchNext]_vars

(***************************************************************************)
(* Claims about the batch driver, checked under SpecBatch.                 *)
(***************************************************************************)
\* what parse_resume returns for an entry of the input directory
ParseOfEntry(name) ==
    ParseResult(PathJoin(INPUT_DIR, name), Disk(PathJoin(INPUT_DIR, name)),
                nlp, skills_txt)

\* a .pdf/.docx file that is no directory
IsResumeFile(name) == ~IsDir(name) /\ HasResumeExtension(name)

\* a resume file whose parse result has an error key
IsFailedEntry(name) ==
    IsResumeFile(name) /\ "error" \in DOMAIN ParseOfEntry(name)

\* a resume file whose parse result has no error key
IsParsedEntry(name) ==
    IsResumeFile(name) /\ "error" \notin DOMAIN ParseOfEntry(name)

\* one record per parsed entry of a listing, in its order, each with its
\* filename
ExpectedRecords(listing) ==
    LET kept == SelectSeq(listing, IsParsedEntry)
    IN  [k \in 1..Len(kept) |->
            ParseOfEntry(kept[k]) @@ [filename |-> kept[k]]]

\* the names printed with a parsing error, in order
LoggedErrors ==
    LET errors == SelectSeq(log, LAMBDA entry : entry.kind = "error")
    IN  [k \in 1..Len(errors) |-> errors[k].filename]

\* the entries the loop has been through
Processed == SubSeq(file_list, 1, idx - 1)

=============================================================================
